---------------------------- MODULE Spec2Model ----------------------------
(***************************************************************************)
(* int-math: 2D/3D integer vectors (UVec2, Vec2, Vec3) and rectangles      *)
(* (URect, Rect) over u16 / i16, with their operators and conversions      *)
(* (src/src/lib.rs).                                                       *)
(*                                                                         *)
(* Every operation of the library is a pure function of its operands.  The *)
(* state machine below is a caller of the library: each step performs one  *)
(* call and records the call and its outcome.  An outcome is either a      *)
(* returned value or a panic (Rust's arithmetic trap).                     *)
(*                                                                         *)
(* The operators + - * of u16 / i16 panic on overflow when the crate is    *)
(* compiled with overflow checks (the default of the dev and test          *)
(* profiles) and wrap modulo 2^16 when it is compiled without them (the    *)
(* default of the release profile).  The operator / panics on a zero       *)
(* divisor, and on i16::MIN / -1, in every build.  An `as` cast between    *)
(* u16 and i16 never panics: it reinterprets the 16 bits.                  *)
(***************************************************************************)
EXTENDS Integers, Sequences, FiniteSets, TLC

\* Width in bits of the field type u16 (pub x: u16) and i16 (pub x: i16).
U16_BITS == 16
I16_BITS == 16

U16_MAX == 2 ^ U16_BITS - 1
I16_MAX == 2 ^ (I16_BITS - 1) - 1
I16_MIN == -(2 ^ (I16_BITS - 1))

U16 == 0 .. U16_MAX
I16 == I16_MIN .. I16_MAX

(***************************************************************************)
(* Bounds of the model: the operands are drawn from the values next to the *)
(* limits of the field types and from the small magnitudes.                *)
(***************************************************************************)
\* Small magnitudes 0..Small (and -Small..Small) of the two-field operands.
Small == 3
\* How many values next to each limit of the type are drawn.
Near == 1
\* Small magnitudes of the operands of the many-field operations
\* (Vec3, with_offset).
Few == 1

U16Vals == (0 .. Small) \cup ((I16_MAX - Near + 1) .. (I16_MAX + Near))
             \cup ((U16_MAX - Near) .. U16_MAX)
I16Vals == ((-Small) .. Small) \cup (I16_MIN .. (I16_MIN + Near))
             \cup ((I16_MAX - Near) .. I16_MAX)
U16Few == (0 .. Few) \cup {I16_MAX + 1, U16_MAX}
I16Few == ((-Few) .. Few) \cup {I16_MIN, I16_MAX}

VARIABLES
    overflow_checks,  \* the build: TRUE = overflow checks on (dev/test profile)
    call,             \* the last call: [op, self, rhs]
    out,              \* its outcome: Panic or Ok(value)
    prev              \* the call whose result is `self` of this call, or NoCall

vars == <<overflow_checks, call, out, prev>>

Abs(n) == IF n < 0 THEN -n ELSE n

\* The outcome of an expression: it panicked, or it has a value.
Panic == [panicked |-> TRUE]
Ok(v) == [panicked |-> FALSE, value |-> v]
NoCall == [op |-> "none", self |-> <<>>, rhs |-> <<>>]

(***************************************************************************)
(* The primitive integer operators, as rustc compiles them.                *)
(***************************************************************************)
WrapU16(n) == n % (2 ^ U16_BITS)
WrapI16(n) == ((n - I16_MIN) % (2 ^ I16_BITS)) + I16_MIN

\* A u16 result n of + - *: out of range panics with overflow checks,
\* wraps without.
u16_arith(n) ==
    IF n \in U16 THEN Ok(n)
    ELSE IF overflow_checks THEN Panic ELSE Ok(WrapU16(n))

\* An i16 result n of + - *.
i16_arith(n) ==
    IF n \in I16 THEN Ok(n)
    ELSE IF overflow_checks THEN Panic ELSE Ok(WrapI16(n))

\* The quotient of a / b truncated toward zero (b # 0).
TruncDiv(a, b) ==
    LET q == Abs(a) \div Abs(b)
    IN  IF (a < 0) = (b < 0) THEN q ELSE -q

u16_add(a, b) == u16_arith(a + b)
u16_sub(a, b) == u16_arith(a - b)
\* a * b modulo 2^16, a and b u16.  The product of two u16 can exceed 2^31,
\* so it is taken in two halves of a.
MulModU16(a, b) ==
    LET h == 2 ^ (U16_BITS \div 2)
    IN  ((((a \div h) * b) % h) * h + (a % h) * b) % (2 ^ U16_BITS)
\* A bug: the product saturates at u16::MAX instead of overflowing.
u16_mul_saturating(a, b) ==
    IF a = 0 \/ b <= U16_MAX \div a THEN Ok(a * b) ELSE Ok(U16_MAX)
\* a * b of u16: the product is in range iff a = 0 or b <= u16::MAX / a.
u16_mul(a, b) ==
    IF a = 0 \/ b <= U16_MAX \div a THEN Ok(a * b)
    ELSE IF overflow_checks THEN Panic ELSE Ok(MulModU16(a, b))
\* u16 / u16: a zero divisor panics in every build.
u16_div(a, b) == IF b = 0 THEN Panic ELSE Ok(TruncDiv(a, b))

i16_add(a, b) == i16_arith(a + b)
i16_sub(a, b) == i16_arith(a - b)
i16_mul(a, b) == i16_arith(a * b)
\* A bug: the quotient is rounded toward minus infinity.
i16_div_floor(a, b) ==
    IF b = 0 THEN Panic
    ELSE IF a = I16_MIN /\ b = -1 THEN Panic
    ELSE Ok(IF b > 0 THEN a \div b ELSE (-a) \div (-b))
\* i16 / i16: a zero divisor, and i16::MIN / -1 (the quotient 32768 is no
\* i16), panic in every build.
i16_div(a, b) ==
    IF b = 0 THEN Panic
    ELSE IF a = I16_MIN /\ b = -1 THEN Panic
    ELSE Ok(TruncDiv(a, b))

\* `u as i16`: the same 16 bits read as two's complement; never panics.
u16_as_i16(u) == WrapI16(u)

\* A struct expression of two / three fields: the fields are evaluated in
\* order, and a panic in any of them is the panic of the whole expression.
Fields2(fx, fy) ==
    IF fx.panicked \/ fy.panicked THEN Panic
    ELSE Ok([x |-> fx.value, y |-> fy.value])
Fields3(fx, fy, fz) ==
    IF fx.panicked \/ fy.panicked \/ fz.panicked THEN Panic
    ELSE Ok([x |-> fx.value, y |-> fy.value, z |-> fz.value])

(***************************************************************************)
(* UVec2                                                                   *)
(***************************************************************************)
UVec2 == [x : U16, y : U16]
UVec2_new(x, y) == [x |-> x, y |-> y]
\* A bug: the y field adds the x field of rhs.
UVec2_add_y_from_x(self, rhs) ==
    Fields2(u16_add(self.x, rhs.x), u16_add(self.y, rhs.x))
UVec2_add(self, rhs) == Fields2(u16_add(self.x, rhs.x), u16_add(self.y, rhs.y))
\* A bug: the subtraction saturates at zero.
UVec2_sub_saturating(self, rhs) ==
    Ok([x |-> IF self.x < rhs.x THEN 0 ELSE self.x - rhs.x,
        y |-> IF self.y < rhs.y THEN 0 ELSE self.y - rhs.y])
UVec2_sub(self, rhs) == Fields2(u16_sub(self.x, rhs.x), u16_sub(self.y, rhs.y))
UVec2_div(self, rhs) == Fields2(u16_div(self.x, rhs), u16_div(self.y, rhs))
UVec2_mul(self, rhs) == Fields2(u16_mul(self.x, rhs), u16_mul(self.y, rhs))
UVec2_from(value) == [x |-> value[1], y |-> value[2]]

(***************************************************************************)
(* Vec2                                                                    *)
(***************************************************************************)
Vec2 == [x : I16, y : I16]
Vec2_new(x, y) == [x |-> x, y |-> y]
Vec2_add(self, rhs) == Fields2(i16_add(self.x, rhs.x), i16_add(self.y, rhs.y))
Vec2_sub(self, rhs) == Fields2(i16_sub(self.x, rhs.x), i16_sub(self.y, rhs.y))
Vec2_div(self, rhs) == Fields2(i16_div(self.x, rhs), i16_div(self.y, rhs))
Vec2_mul(self, rhs) == Fields2(i16_mul(self.x, rhs), i16_mul(self.y, rhs))
Vec2_from(value) == [x |-> value[1], y |-> value[2]]

(***************************************************************************)
(* Vec3                                                                    *)
(***************************************************************************)
Vec3 == [x : I16, y : I16, z : I16]
Vec3_from_Vec2(value) == [x |-> value.x, y |-> value.y, z |-> 0]
Vec3_new(x, y, z) == [x |-> x, y |-> y, z |-> z]
\* A bug: the z field is added without the overflow check of x and y.
Vec3_add_wrapping_z(self, rhs) ==
    Fields3(i16_add(self.x, rhs.x), i16_add(self.y, rhs.y),
            Ok(WrapI16(self.z + rhs.z)))
Vec3_add(self, rhs) ==
    Fields3(i16_add(self.x, rhs.x), i16_add(self.y, rhs.y), i16_add(self.z, rhs.z))
Vec3_sub(self, rhs) ==
    Fields3(i16_sub(self.x, rhs.x), i16_sub(self.y, rhs.y), i16_sub(self.z, rhs.z))
\* A bug: the z field divides the y field.
Vec3_div_z_from_y(self, rhs) ==
    Fields3(i16_div(self.x, rhs), i16_div(self.y, rhs), i16_div(self.y, rhs))
Vec3_div(self, rhs) ==
    Fields3(i16_div(self.x, rhs), i16_div(self.y, rhs), i16_div(self.z, rhs))
Vec3_mul(self, rhs) ==
    Fields3(i16_mul(self.x, rhs), i16_mul(self.y, rhs), i16_mul(self.z, rhs))
Vec3_from(value) == [x |-> value[1], y |-> value[2], z |-> value[3]]

(***************************************************************************)
(* URect                                                                   *)
(***************************************************************************)
URect_new(x, y, width, height) ==
    [position |-> [x |-> x, y |-> y], size |-> [x |-> width, y |-> height]]
URect_with_position_and_size(position, size) ==
    [position |-> position, size |-> size]
\* A bug: the half of the size is rounded up.
URect_center_rounding_up(self) ==
    Fields2(u16_add(self.position.x, TruncDiv(self.size.x + 1, 2)),
            u16_add(self.position.y, TruncDiv(self.size.y + 1, 2)))
\* self.size.x / 2 has the constant divisor 2 and cannot panic.
URect_center(self) ==
    Fields2(u16_add(self.position.x, TruncDiv(self.size.x, 2)),
            u16_add(self.position.y, TruncDiv(self.size.y, 2)))
URect_with_offset(self, offset) ==
    LET p == UVec2_add(self.position, offset)
    IN  IF p.panicked THEN Panic
        ELSE Ok(URect_with_position_and_size(p.value, self.size))
URect_from(value) ==
    [position |-> UVec2_from(<<value[1], value[2]>>),
     size |-> UVec2_from(<<value[3], value[4]>>)]

(***************************************************************************)
(* Rect                                                                    *)
(***************************************************************************)
Rect_new(x, y, width, height) ==
    [position |-> [x |-> x, y |-> y], size |-> [x |-> width, y |-> height]]
Rect_with_position_and_size(position, size) ==
    [position |-> position, size |-> size]
\* `self.size.x as i16 / 2`: the cast binds tighter than the division, so
\* the size is first read as an i16 and then halved.
Rect_center(self) ==
    Fields2(i16_add(self.position.x, TruncDiv(u16_as_i16(self.size.x), 2)),
            i16_add(self.position.y, TruncDiv(u16_as_i16(self.size.y), 2)))
\* A bug: the offset is subtracted.
Rect_with_offset_subtracting(self, offset) ==
    LET p == Vec2_sub(self.position, offset)
    IN  IF p.panicked THEN Panic
        ELSE Ok(Rect_with_position_and_size(p.value, self.size))
Rect_with_offset(self, offset) ==
    LET p == Vec2_add(self.position, offset)
    IN  IF p.panicked THEN Panic
        ELSE Ok(Rect_with_position_and_size(p.value, self.size))
\* A bug: width and height are taken in the wrong order.
Rect_from_size_swapped(value) ==
    [position |-> Vec2_from(<<value[1], value[2]>>),
     size |-> UVec2_from(<<value[4], value[3]>>)]
Rect_from(value) ==
    [position |-> Vec2_from(<<value[1], value[2]>>),
     size |-> UVec2_from(<<value[3], value[4]>>)]

(***************************************************************************)
(* The caller.  A step performs one call of the library and records it.    *)
(* A panic ends the run: no call follows it.  After a call that returned,  *)
(* the caller either passes the result to a next call or drops it.         *)
(***************************************************************************)
UVec2Vals == [x : U16Vals, y : U16Vals]
Vec2Vals == [x : I16Vals, y : I16Vals]
UVec2Few == [x : U16Few, y : U16Few]
Vec2Few == [x : I16Few, y : I16Few]
Vec3Few == [x : I16Few, y : I16Few, z : I16Few]
URectVals == [position : UVec2Vals, size : UVec2Vals]
RectVals == [position : Vec2Vals, size : UVec2Vals]
URectFew == [position : UVec2Few, size : UVec2Few]
RectFew == [position : Vec2Few, size : UVec2Few]

Init ==
    /\ overflow_checks \in BOOLEAN
    /\ call = NoCall
    /\ out = Ok(<<>>)
    /\ prev = NoCall

\* The caller holds no result and has not panicked.
Idle == call = NoCall /\ ~out.panicked
\* The previous call was `op` and returned a value.
Returned(op) == call.op = op /\ ~out.panicked

\* One call: `op` on `self` and `rhs` ends as `result`.  `chained` says that
\* `self` is the value the previous call returned.
Do(op, self, rhs, result, chained) ==
    /\ call' = [op |-> op, self |-> self, rhs |-> rhs]
    /\ out' = result
    /\ prev' = IF chained THEN call ELSE NoCall
    /\ UNCHANGED overflow_checks

UVec2New ==
    /\ Idle
    /\ \E x \in U16Vals, y \in U16Vals :
           Do("UVec2::new", <<x, y>>, <<>>, Ok(UVec2_new(x, y)), FALSE)
UVec2Add ==
    /\ Idle
    /\ \E a \in UVec2Vals, b \in UVec2Vals :
           Do("UVec2::add", a, b, UVec2_add(a, b), FALSE)
UVec2Sub ==
    /\ Idle
    /\ \E a \in UVec2Vals, b \in UVec2Vals :
           Do("UVec2::sub", a, b, UVec2_sub(a, b), FALSE)
\* (a + b) - b
UVec2SubOfSum ==
    /\ Returned("UVec2::add")
    /\ Do("UVec2::sub", out.value, call.rhs, UVec2_sub(out.value, call.rhs), TRUE)
UVec2Div ==
    /\ Idle
    /\ \E a \in UVec2Vals, s \in U16Vals :
           Do("UVec2::div", a, s, UVec2_div(a, s), FALSE)
UVec2Mul ==
    /\ Idle
    /\ \E a \in UVec2Vals, s \in U16Vals :
           Do("UVec2::mul", a, s, UVec2_mul(a, s), FALSE)
\* (v * s) / s
UVec2DivOfProduct ==
    /\ Returned("UVec2::mul")
    /\ Do("UVec2::div", out.value, call.rhs, UVec2_div(out.value, call.rhs), TRUE)
UVec2From ==
    /\ Idle
    /\ \E x \in U16Vals, y \in U16Vals :
           Do("UVec2::from", <<x, y>>, <<>>, Ok(UVec2_from(<<x, y>>)), FALSE)

Vec2New ==
    /\ Idle
    /\ \E x \in I16Vals, y \in I16Vals :
           Do("Vec2::new", <<x, y>>, <<>>, Ok(Vec2_new(x, y)), FALSE)
Vec2Add ==
    /\ Idle
    /\ \E a \in Vec2Vals, b \in Vec2Vals :
           Do("Vec2::add", a, b, Vec2_add(a, b), FALSE)
Vec2Sub ==
    /\ Idle
    /\ \E a \in Vec2Vals, b \in Vec2Vals :
           Do("Vec2::sub", a, b, Vec2_sub(a, b), FALSE)
Vec2Div ==
    /\ Idle
    /\ \E a \in Vec2Vals, s \in I16Vals :
           Do("Vec2::div", a, s, Vec2_div(a, s), FALSE)
Vec2Mul ==
    /\ Idle
    /\ \E a \in Vec2Vals, s \in I16Vals :
           Do("Vec2::mul", a, s, Vec2_mul(a, s), FALSE)
Vec2DivOfProduct ==
    /\ Returned("Vec2::mul")
    /\ Do("Vec2::div", out.value, call.rhs, Vec2_div(out.value, call.rhs), TRUE)
Vec2From ==
    /\ Idle
    /\ \E x \in I16Vals, y \in I16Vals :
           Do("Vec2::from", <<x, y>>, <<>>, Ok(Vec2_from(<<x, y>>)), FALSE)

Vec3New ==
    /\ Idle
    /\ \E x \in I16Vals, y \in I16Vals, z \in I16Vals :
           Do("Vec3::new", <<x, y, z>>, <<>>, Ok(Vec3_new(x, y, z)), FALSE)
Vec3FromVec2 ==
    /\ Idle
    /\ \E v \in Vec2Vals :
           Do("Vec3::from(Vec2)", v, <<>>, Ok(Vec3_from_Vec2(v)), FALSE)
Vec3Add ==
    /\ Idle
    /\ \E a \in Vec3Few, b \in Vec3Few :
           Do("Vec3::add", a, b, Vec3_add(a, b), FALSE)
Vec3Sub ==
    /\ Idle
    /\ \E a \in Vec3Few, b \in Vec3Few :
           Do("Vec3::sub", a, b, Vec3_sub(a, b), FALSE)
Vec3Div ==
    /\ Idle
    /\ \E a \in Vec3Few, s \in I16Vals :
           Do("Vec3::div", a, s, Vec3_div(a, s), FALSE)
Vec3Mul ==
    /\ Idle
    /\ \E a \in Vec3Few, s \in I16Vals :
           Do("Vec3::mul", a, s, Vec3_mul(a, s), FALSE)
Vec3DivOfProduct ==
    /\ Returned("Vec3::mul")
    /\ Do("Vec3::div", out.value, call.rhs, Vec3_div(out.value, call.rhs), TRUE)
Vec3From ==
    /\ Idle
    /\ \E x \in I16Vals, y \in I16Vals, z \in I16Vals :
           Do("Vec3::from", <<x, y, z>>, <<>>, Ok(Vec3_from(<<x, y, z>>)), FALSE)

URectNew ==
    /\ Idle
    /\ \E x \in U16Few, y \in U16Few, w \in U16Few, h \in U16Few :
           Do("URect::new", <<x, y, w, h>>, <<>>, Ok(URect_new(x, y, w, h)), FALSE)
URectWithPositionAndSize ==
    /\ Idle
    /\ \E p \in UVec2Few, s \in UVec2Few :
           Do("URect::with_position_and_size", p, s,
              Ok(URect_with_position_and_size(p, s)), FALSE)
URectCenter ==
    /\ Idle
    /\ \E r \in URectVals :
           Do("URect::center", r, <<>>, URect_center(r), FALSE)
URectWithOffset ==
    /\ Idle
    /\ \E r \in URectFew, d \in UVec2Few :
           Do("URect::with_offset", r, d, URect_with_offset(r, d), FALSE)
URectFrom ==
    /\ Idle
    /\ \E x \in U16Few, y \in U16Few, w \in U16Few, h \in U16Few :
           Do("URect::from", <<x, y, w, h>>, <<>>, Ok(URect_from(<<x, y, w, h>>)), FALSE)

RectNew ==
    /\ Idle
    /\ \E x \in I16Few, y \in I16Few, w \in U16Few, h \in U16Few :
           Do("Rect::new", <<x, y, w, h>>, <<>>, Ok(Rect_new(x, y, w, h)), FALSE)
RectWithPositionAndSize ==
    /\ Idle
    /\ \E p \in Vec2Few, s \in UVec2Few :
           Do("Rect::with_position_and_size", p, s,
              Ok(Rect_with_position_and_size(p, s)), FALSE)
RectCenter ==
    /\ Idle
    /\ \E r \in RectVals :
           Do("Rect::center", r, <<>>, Rect_center(r), FALSE)
RectWithOffset ==
    /\ Idle
    /\ \E r \in RectFew, d \in Vec2Few :
           Do("Rect::with_offset", r, d, Rect_with_offset(r, d), FALSE)
RectFrom ==
    /\ Idle
    /\ \E x \in I16Few, y \in I16Few, w \in U16Few, h \in U16Few :
           Do("Rect::from", <<x, y, w, h>>, <<>>, Ok(Rect_from(<<x, y, w, h>>)), FALSE)

\* The caller drops the result and is free to make any other call.
Drop ==
    /\ call # NoCall
    /\ ~out.panicked
    /\ call' = NoCall
    /\ out' = Ok(<<>>)
    /\ prev' = NoCall
    /\ UNCHANGED overflow_checks

Next ==
    \/ UVec2New \/ UVec2Add \/ UVec2Sub \/ UVec2SubOfSum \/ UVec2Div
    \/ UVec2Mul \/ UVec2DivOfProduct \/ UVec2From
    \/ Vec2New \/ Vec2Add \/ Vec2Sub \/ Vec2Div \/ Vec2Mul
    \/ Vec2DivOfProduct \/ Vec2From
    \/ Vec3New \/ Vec3FromVec2 \/ Vec3Add \/ Vec3Sub \/ Vec3Div \/ Vec3Mul
    \/ Vec3DivOfProduct \/ Vec3From
    \/ URectNew \/ URectWithPositionAndSize \/ URectCenter
    \/ URectWithOffset \/ URectFrom
    \/ RectNew \/ RectWithPositionAndSize \/ RectCenter
    \/ RectWithOffset \/ RectFrom
    \/ Drop

Spec == Init /\ [][Next]_vars

(***************************************************************************)
(* Notions the properties are stated with.  They restate the arithmetic of *)
(* the specification (mathematical integers, ranges, quotients) and use    *)
(* none of the operators above.                                            *)
(***************************************************************************)
TwoTo16 == 2 ^ U16_BITS
InU16(n) == 0 <= n /\ n < TwoTo16
InI16(n) == -(TwoTo16 \div 2) <= n /\ n < TwoTo16 \div 2
\* The value of the 16-bit type congruent to n modulo 2^16, for an n that is
\* at most 2^16 outside the type's range (a sum or a difference).
WrapOnce(n, lo, hi) ==
    IF n > hi THEN n - TwoTo16 ELSE IF n < lo THEN n + TwoTo16 ELSE n
WrapOnceU16(n) == WrapOnce(n, 0, TwoTo16 - 1)
WrapOnceI16(n) == WrapOnce(n, -(TwoTo16 \div 2), TwoTo16 \div 2 - 1)
\* q is the quotient of a by s # 0 truncated toward zero.
IsTruncQuot(q, a, s) ==
    /\ Abs(q) * Abs(s) <= Abs(a)
    /\ Abs(a) < (Abs(q) + 1) * Abs(s)
    /\ q # 0 => ((q < 0) <=> ((a < 0) # (s < 0)))
\* The product a * s of two u16 is a u16 (stated without forming a * s).
ProductInU16(a, s) == a = 0 \/ s = 0 \/ (a <= (TwoTo16 - 1) \div s)
\* r is congruent to the product a * s modulo 2^16, a and s u16 (stated with
\* s split in two bytes, so that no intermediate exceeds 2^31).
CongruentToProductU16(r, a, s) ==
    (r - (a * (s % 256) + ((a * (s \div 256)) % 256) * 256)) % TwoTo16 = 0

AddOps == {"UVec2::add", "Vec2::add", "Vec3::add"}
MulOps == {"UVec2::mul", "Vec2::mul", "Vec3::mul"}
DivOps == {"UVec2::div", "Vec2::div", "Vec3::div"}
OffsetOps == {"URect::with_offset", "Rect::with_offset"}
Unsigned(op) == op \in {"UVec2::add", "UVec2::sub", "UVec2::mul", "UVec2::div",
                        "URect::with_offset"}
\* The names of the fields of a vector.
FieldNames(v) == DOMAIN v
InField(op, n) == IF Unsigned(op) THEN InU16(n) ELSE InI16(n)
WrapField(op, n) == IF Unsigned(op) THEN WrapOnceU16(n) ELSE WrapOnceI16(n)

----------------------------------------------------------------------------
\* C1 (as claimed): UVec2 a - b panics if a.x < b.x or a.y < b.y, in every
\* build, and otherwise returns UVec2(a.x - b.x, a.y - b.y); it never
\* returns a wrapped or clamped value.
C1_SubAlwaysTraps ==
    call.op = "UVec2::sub" =>
        LET a == call.self
            b == call.rhs
        IN  IF a.x < b.x \/ a.y < b.y
            THEN out.panicked
            ELSE out = Ok([x |-> a.x - b.x, y |-> a.y - b.y])

\* C1 (amended): UVec2 a - b returns UVec2(a.x - b.x, a.y - b.y) when
\* a.x >= b.x and a.y >= b.y.  When a field would be negative, it panics
\* if the build has overflow checks, and returns that field wrapped modulo
\* 2^16 if the build has none; it never returns a clamped value.
C1_SubTrapsWithOverflowChecks ==
    call.op = "UVec2::sub" =>
        LET a == call.self
            b == call.rhs
        IN  IF a.x >= b.x /\ a.y >= b.y
            THEN out = Ok([x |-> a.x - b.x, y |-> a.y - b.y])
            ELSE IF overflow_checks
            THEN out.panicked
            ELSE /\ out = Ok([x |-> WrapOnceU16(a.x - b.x),
                              y |-> WrapOnceU16(a.y - b.y)])
                 /\ a.x < b.x => out.value.x # 0
                 /\ a.y < b.y => out.value.y # 0

\* C1 witness: with overflow checks, a subtraction whose x field alone
\* would be negative has panicked.
C1_Witness ==
    /\ call.op = "UVec2::sub"
    /\ overflow_checks
    /\ call.self.x < call.rhs.x
    /\ call.self.y >= call.rhs.y
    /\ out.panicked

----------------------------------------------------------------------------
\* C2 (as claimed): for UVec2, Vec2 and Vec3, a + b returns the field-wise
\* sum when every sum is in the field type's range and panics, in every
\* build, when a sum of any field (z included) is not.
C2_AddAlwaysTraps ==
    call.op \in AddOps =>
        LET a == call.self
            b == call.rhs
        IN  IF \A f \in FieldNames(a) : InField(call.op, a[f] + b[f])
            THEN out = Ok([f \in FieldNames(a) |-> a[f] + b[f]])
            ELSE out.panicked

\* C2 (amended): a + b returns the field-wise sum when every sum is in
\* range.  When the sum of any field (z included) is out of range, it
\* panics if the build has overflow checks and returns the sums wrapped
\* modulo 2^16 if the build has none.
C2_AddTrapsWithOverflowChecks ==
    call.op \in AddOps =>
        LET a == call.self
            b == call.rhs
        IN  IF \A f \in FieldNames(a) : InField(call.op, a[f] + b[f])
            THEN out = Ok([f \in FieldNames(a) |-> a[f] + b[f]])
            ELSE IF overflow_checks
            THEN out.panicked
            ELSE out = Ok([f \in FieldNames(a) |-> WrapField(call.op, a[f] + b[f])])

\* C2 witness: with overflow checks, a Vec3 sum whose z field alone is out
\* of range has panicked.
C2_Witness ==
    /\ call.op = "Vec3::add"
    /\ overflow_checks
    /\ InI16(call.self.x + call.rhs.x)
    /\ InI16(call.self.y + call.rhs.y)
    /\ ~InI16(call.self.z + call.rhs.z)
    /\ out.panicked

----------------------------------------------------------------------------
\* Every product field * s of the call is in the field type's range.
ProductsInRange(op, v, s) ==
    \A f \in FieldNames(v) :
        IF Unsigned(op) THEN ProductInU16(v[f], s) ELSE InI16(v[f] * s)
\* r is the value of the field type congruent to field * s modulo 2^16.
IsWrappedProduct(op, r, a, s) ==
    IF Unsigned(op)
    THEN InU16(r) /\ CongruentToProductU16(r, a, s)
    ELSE InI16(r) /\ (r - a * s) % TwoTo16 = 0

\* C3 (as claimed): for UVec2, Vec2 and Vec3, v * s returns the field-wise
\* product when every product is in range and panics, in every build, when
\* any product is not.
C3_MulAlwaysTraps ==
    call.op \in MulOps =>
        LET v == call.self
            s == call.rhs
        IN  IF ProductsInRange(call.op, v, s)
            THEN out = Ok([f \in FieldNames(v) |-> v[f] * s])
            ELSE out.panicked

\* C3 (amended): v * s returns the field-wise product when every product is
\* in range.  When any product is out of range, it panics if the build has
\* overflow checks and returns the products wrapped modulo 2^16 if the
\* build has none.
C3_MulTrapsWithOverflowChecks ==
    call.op \in MulOps =>
        LET v == call.self
            s == call.rhs
        IN  IF ProductsInRange(call.op, v, s)
            THEN out = Ok([f \in FieldNames(v) |-> v[f] * s])
            ELSE IF overflow_checks
            THEN out.panicked
            ELSE /\ ~out.panicked
                 /\ DOMAIN out.value = FieldNames(v)
                 /\ \A f \in FieldNames(v) :
                        IsWrappedProduct(call.op, out.value[f], v[f], s)

\* C3 witness: with overflow checks, a Vec2 product by a negative scalar
\* whose y field alone is out of range has panicked.
C3_Witness ==
    /\ call.op = "Vec2::mul"
    /\ overflow_checks
    /\ call.rhs < 0
    /\ InI16(call.self.x * call.rhs)
    /\ ~InI16(call.self.y * call.rhs)
    /\ out.panicked

----------------------------------------------------------------------------
\* The call returned the field-wise quotients truncated toward zero.
ReturnedTruncQuotients(v, s) ==
    /\ ~out.panicked
    /\ DOMAIN out.value = FieldNames(v)
    /\ \A f \in FieldNames(v) : IsTruncQuot(out.value[f], v[f], s)

\* C4 (as claimed): for UVec2, Vec2 and Vec3, v / 0 panics, and v / s
\* succeeds for every s # 0 with every field the quotient truncated toward
\* zero: a zero divisor is the only panic of the division.
C4_DivPanicsOnlyOnZero ==
    call.op \in DivOps =>
        IF call.rhs = 0 THEN out.panicked
        ELSE ReturnedTruncQuotients(call.self, call.rhs)

\* C4 (amended): v / 0 panics; for the signed types v / -1 also panics, in
\* every build, when a field of v is -32768 (the quotient 32768 is no i16);
\* for every other v and s the division succeeds with every field the
\* quotient truncated toward zero.
C4_DivPanicsOnZeroAndMinByMinusOne ==
    call.op \in DivOps =>
        IF call.rhs = 0 THEN out.panicked
        ELSE IF /\ ~Unsigned(call.op)
                /\ call.rhs = -1
                /\ \E f \in FieldNames(call.self) :
                       call.self[f] = -(TwoTo16 \div 2)
        THEN out.panicked
        ELSE ReturnedTruncQuotients(call.self, call.rhs)

\* C4 witness: a Vec2 with a field -32768 divided by -1 has panicked.
C4_Witness ==
    /\ call.op = "Vec2::div"
    /\ call.rhs = -1
    /\ call.self.x = -(TwoTo16 \div 2)
    /\ call.self.y = 1
    /\ out.panicked

----------------------------------------------------------------------------
\* C5: for UVec2 a, b whose sum a + b does not overflow, (a + b) - b does
\* not panic and equals a.
C5_SubUndoesAdd ==
    (/\ call.op = "UVec2::sub"
     /\ prev.op = "UVec2::add"
     /\ InU16(prev.self.x + prev.rhs.x)
     /\ InU16(prev.self.y + prev.rhs.y))
        => out = Ok(prev.self)

\* C5 witness: (a + b) - b has been computed for a sum that does not
\* overflow, with a and b non-zero in both fields.
C5_Witness ==
    /\ call.op = "UVec2::sub"
    /\ prev.op = "UVec2::add"
    /\ prev.self.x > 0 /\ prev.self.y > prev.self.x
    /\ prev.rhs.x > 0 /\ prev.rhs.y > 0
    /\ InU16(prev.self.x + prev.rhs.x)
    /\ InU16(prev.self.y + prev.rhs.y)
    /\ call.self = [x |-> prev.self.x + prev.rhs.x, y |-> prev.self.y + prev.rhs.y]
    /\ call.rhs = prev.rhs
    /\ ~out.panicked

----------------------------------------------------------------------------
\* The multiplication a division undoes.
MulOf(op) ==
    CASE op = "UVec2::div" -> "UVec2::mul"
      [] op = "Vec2::div" -> "Vec2::mul"
      [] op = "Vec3::div" -> "Vec3::mul"
      [] OTHER -> "no such call"

\* C6: for UVec2, Vec2 and Vec3, every v and every s # 0 such that no
\* product field * s overflows: (v * s) / s does not panic and equals v.
C6_DivUndoesMul ==
    (/\ call.op \in DivOps
     /\ prev.op = MulOf(call.op)
     /\ prev.rhs # 0
     /\ ProductsInRange(prev.op, prev.self, prev.rhs))
        => out = Ok(prev.self)

\* C6 witness: (v * s) / s has been computed for a Vec2 v with a negative
\* and a positive field and a scalar s < -1, without overflow.
C6_Witness ==
    /\ call.op = "Vec2::div"
    /\ prev.op = "Vec2::mul"
    /\ prev.rhs < -1
    /\ prev.self.x < 0 /\ prev.self.y > 0
    /\ InI16(prev.self.x * prev.rhs) /\ InI16(prev.self.y * prev.rhs)
    /\ call.self = [x |-> prev.self.x * prev.rhs, y |-> prev.self.y * prev.rhs]
    /\ call.rhs = prev.rhs
    /\ out = Ok(prev.self)

----------------------------------------------------------------------------
\* The center the specification gives a rectangle: its position plus half
\* its size, the half rounded down.
CenterX(r) == r.position.x + r.size.x \div 2
CenterY(r) == r.position.y + r.size.y \div 2

\* C7 (as claimed): URect r.center() is UVec2(position.x + size.x / 2,
\* position.y + size.y / 2), the halves rounded down, and lies between
\* position and position + size, when both sums fit in u16; when a sum
\* exceeds 65535 it panics, in every build.
C7_URectCenterAlwaysTraps ==
    call.op = "URect::center" =>
        LET r == call.self
        IN  IF InU16(CenterX(r)) /\ InU16(CenterY(r))
            THEN /\ out = Ok([x |-> CenterX(r), y |-> CenterY(r)])
                 /\ r.position.x <= out.value.x
                 /\ out.value.x <= r.position.x + r.size.x
                 /\ r.position.y <= out.value.y
                 /\ out.value.y <= r.position.y + r.size.y
            ELSE out.panicked

\* C7 (amended): URect r.center() is UVec2(position.x + size.x / 2,
\* position.y + size.y / 2), the halves rounded down, and lies between
\* position and position + size, when both sums fit in u16.  When a sum
\* exceeds 65535, it panics if the build has overflow checks and returns
\* the sums wrapped modulo 2^16 if the build has none.
C7_URectCenterTrapsWithOverflowChecks ==
    call.op = "URect::center" =>
        LET r == call.self
        IN  IF InU16(CenterX(r)) /\ InU16(CenterY(r))
            THEN /\ out = Ok([x |-> CenterX(r), y |-> CenterY(r)])
                 /\ r.position.x <= out.value.x
                 /\ out.value.x <= r.position.x + r.size.x
                 /\ r.position.y <= out.value.y
                 /\ out.value.y <= r.position.y + r.size.y
                 /\ 2 * (out.value.x - r.position.x) \in {r.size.x - 1, r.size.x}
                 /\ 2 * (out.value.y - r.position.y) \in {r.size.y - 1, r.size.y}
            ELSE IF overflow_checks
            THEN out.panicked
            ELSE out = Ok([x |-> WrapOnceU16(CenterX(r)),
                           y |-> WrapOnceU16(CenterY(r))])

\* C7 witness: the center of a rectangle of odd width 3 and even height 2
\* at a non-zero position has been returned, one right of and one above
\* the position.
C7_Witness ==
    /\ call.op = "URect::center"
    /\ call.self.size = [x |-> 3, y |-> 2]
    /\ call.self.position.x > 0
    /\ ~out.panicked
    /\ out.value.x = call.self.position.x + 1
    /\ out.value.y = call.self.position.y + 1

----------------------------------------------------------------------------
\* C8 (as claimed): Rect r.center() is Vec2(position.x + size.x / 2,
\* position.y + size.y / 2) whenever both sums are i16, for every size
\* field in 0..65535 (a size of 32768 or more is halved as the non-negative
\* number it is).
C8_RectCenterHalvesUnsignedSize ==
    call.op = "Rect::center" =>
        LET r == call.self
        IN  (InI16(CenterX(r)) /\ InI16(CenterY(r)))
                => out = Ok([x |-> CenterX(r), y |-> CenterY(r)])

----------------------------------------------------------------------------
\* C9 (as claimed): for URect and Rect, r.with_offset(delta) returns the
\* rectangle of size r.size at position r.position + delta when both sums
\* are in the position type's range, and panics, in every build, when one
\* is not.
C9_WithOffsetAlwaysTraps ==
    call.op \in OffsetOps =>
        LET r == call.self
            d == call.rhs
            sum == [f \in {"x", "y"} |-> r.position[f] + d[f]]
        IN  IF \A f \in {"x", "y"} : InField(call.op, sum[f])
            THEN out = Ok([position |-> sum, size |-> r.size])
            ELSE out.panicked

\* C9 (amended): r.with_offset(delta) returns the rectangle of size r.size
\* at position r.position + delta when both sums are in the position
\* type's range.  When a sum is out of range, it panics if the build has
\* overflow checks, and if the build has none it returns the rectangle of
\* size r.size at the sums wrapped modulo 2^16.
C9_WithOffsetTrapsWithOverflowChecks ==
    call.op \in OffsetOps =>
        LET r == call.self
            d == call.rhs
            sum == [f \in {"x", "y"} |-> r.position[f] + d[f]]
        IN  IF \A f \in {"x", "y"} : InField(call.op, sum[f])
            THEN out = Ok([position |-> sum, size |-> r.size])
            ELSE IF overflow_checks
            THEN out.panicked
            ELSE out = Ok([position |-> [f \in {"x", "y"} |->
                                            WrapField(call.op, sum[f])],
                           size |-> r.size])

\* C9 witness: a Rect of non-zero size has been moved by an offset that is
\* negative in x and positive in y, and kept its size.
C9_Witness ==
    /\ call.op = "Rect::with_offset"
    /\ call.rhs.x < 0 /\ call.rhs.y > 0
    /\ call.self.size.x > 0 /\ call.self.size.y > call.self.size.x
    /\ ~out.panicked
    /\ out.value.size = call.self.size
    /\ out.value.position.x < call.self.position.x
    /\ out.value.position.y > call.self.position.y

----------------------------------------------------------------------------
\* C10: every conversion succeeds and is positional: UVec2::from((x, y))
\* and Vec2::from((x, y)) have the fields x, y; Vec3::from((x, y, z)) has
\* the fields x, y, z; URect::from and Rect::from of (x, y, w, h) have the
\* position (x, y) and the size (w, h), as new(x, y, w, h) has; and
\* Vec3::from(Vec2(x, y)) is Vec3(x, y, 0).
C10_ConversionsArePositional ==
    LET t == call.self
    IN  /\ call.op \in {"UVec2::from", "Vec2::from"} =>
            /\ ~out.panicked
            /\ DOMAIN out.value = {"x", "y"}
            /\ out.value.x = t[1] /\ out.value.y = t[2]
        /\ call.op = "Vec3::from" =>
            /\ ~out.panicked
            /\ DOMAIN out.value = {"x", "y", "z"}
            /\ out.value.x = t[1] /\ out.value.y = t[2] /\ out.value.z = t[3]
        /\ call.op = "URect::from" =>
            /\ ~out.panicked
            /\ DOMAIN out.value = {"position", "size"}
            /\ out.value.position = [x |-> t[1], y |-> t[2]]
            /\ out.value.size = [x |-> t[3], y |-> t[4]]
            /\ out.value = URect_new(t[1], t[2], t[3], t[4])
        /\ call.op = "Rect::from" =>
            /\ ~out.panicked
            /\ DOMAIN out.value = {"position", "size"}
            /\ out.value.position = [x |-> t[1], y |-> t[2]]
            /\ out.value.size = [x |-> t[3], y |-> t[4]]
            /\ out.value = Rect_new(t[1], t[2], t[3], t[4])
        /\ call.op = "Vec3::from(Vec2)" =>
            out = Ok([x |-> t.x, y |-> t.y, z |-> 0])

\* C10 witness: a Rect has been converted from a tuple whose four values
\* differ, the position negative and the size above 32767.
C10_Witness ==
    /\ call.op = "Rect::from"
    /\ call.self[1] < 0 /\ call.self[2] > 0
    /\ call.self[3] > TwoTo16 \div 2 /\ call.self[4] = 1
    /\ ~out.panicked
    /\ out.value.position.x = call.self[1]
    /\ out.value.size.y = 1

=============================================================================
